---- MODULE Spec2Model ----
(***************************************************************************)
(* Model of the Proxmox MCP adapter (src/index.js): the call-tool request  *)
(* handler, the backend client proxmoxRequest and the seven tool handlers. *)
(*                                                                         *)
(* An async handler is a sequence of steps, one per `await`: the action    *)
(* CallTool runs the handler up to its first backend call, the action      *)
(* BackendResponds delivers the outcome of the outstanding fetch and runs  *)
(* the handler up to its next backend call or to its return.               *)
(*                                                                         *)
(* Text is modelled by TLA+ strings built with \o.  The glyphs of the      *)
(* source are not ASCII and are written as bracketed ASCII names.          *)
(* A backquote of the source is written as a quote.                        *)
(* Fractions (cpu) are integers in 1/100.                                  *)
(***************************************************************************)
EXTENDS Integers, Sequences, FiniteSets, TLC

VARIABLES allowElevated, pc, request, at, locals, pending, calls, outcomes, received,
          result

vars ==
    <<allowElevated, pc, request, at, locals, pending, calls, outcomes, received, result>>

(***************************************************************************)
(* Bounds of the model.                                                    *)
(***************************************************************************)
MaxNodes == 2
MaxGuests == 1
MaxStorages == 2

(***************************************************************************)
(* Glyphs of the source, as ASCII.                                         *)
(***************************************************************************)
GlyphGreen == "[green]"
GlyphRed == "[red]"
GlyphYellow == "[yellow]"
GlyphCross == "[x]"
GlyphWarning == "[!]"
GlyphComputer == "[computer]"
GlyphPackage == "[package]"
GlyphLaptop == "[laptop]"
GlyphDisk == "[disk]"
GlyphCrane == "[crane]"

(***************************************************************************)
(* JavaScript values.  undefined is the marker Undefined; a JSON value is  *)
(* a tagged record: null, a list, an object or a string.                   *)
(***************************************************************************)
Undefined == "<undefined>"
JsNull == [t |-> "null"]
JsList(s) == [t |-> "list", v |-> s]
JsObj(r) == [t |-> "obj", v |-> r]
JsStr(s) == [t |-> "str", v |-> s]

\* ${v} in a template, of a string or of undefined
Str(v) == IF v = Undefined THEN "undefined" ELSE v

\* r.f of an object whose absent fields read as undefined
Has(r, f) == f \in DOMAIN r
Field(r, f) == IF Has(r, f) THEN r[f] ELSE Undefined
\* r.f || 0 of a numeric field
Num(r, f) == IF Has(r, f) THEN r[f] ELSE 0
\* truthiness of a numeric field
Truthy(r, f) == Has(r, f) /\ r[f] # 0

(***************************************************************************)
(* Number formatting.                                                      *)
(***************************************************************************)
\* (n / d).toFixed(1), n >= 0, d > 0, rounding half up
ToFixed1(n, d) ==
    LET t == (20 * n + d) \div (2 * d)
    IN ToString(t \div 10) \o "." \o ToString(t % 10)

\* parseFloat((n / d).toFixed(2)) as a string: trailing zeros dropped
ToFixed2Short(n, d) ==
    LET h == (200 * n + d) \div (2 * d)
        whole == ToString(h \div 100)
        frac == h % 100
    IN IF frac = 0 THEN whole
       ELSE IF frac % 10 = 0 THEN whole \o "." \o ToString(frac \div 10)
       ELSE IF frac < 10 THEN whole \o ".0" \o ToString(frac)
       ELSE whole \o "." \o ToString(frac)

RECURSIVE Pow1024(_)
Pow1024(i) == IF i = 0 THEN 1 ELSE 1024 * Pow1024(i - 1)

sizes == <<"B", "KB", "MB", "GB", "TB">>

\* Math.floor(Math.log(bytes) / Math.log(1024)) for an integer bytes >= 1
RECURSIVE LogIndex(_, _)
LogIndex(bytes, i) == IF bytes < Pow1024(i + 1) THEN i ELSE LogIndex(bytes, i + 1)

formatBytes(bytes) ==
    IF bytes = 0 THEN "0 B"
    ELSE LET i == LogIndex(bytes, 0)
         IN ToFixed2Short(bytes, Pow1024(i)) \o " " \o sizes[i + 1]

formatUptime(seconds) ==
    LET days == seconds \div 86400
        hours == (seconds % 86400) \div 3600
        minutes == (seconds % 3600) \div 60
    IN IF days > 0
       THEN ToString(days) \o "d " \o ToString(hours) \o "h " \o ToString(minutes) \o "m"
       ELSE IF hours > 0
       THEN ToString(hours) \o "h " \o ToString(minutes) \o "m"
       ELSE ToString(minutes) \o "m"

\* parseInt of a string of decimal digits
Digits == <<"0", "1", "2", "3", "4", "5", "6", "7", "8", "9">>
DigitValue(c) == (CHOOSE k \in 1..10 : Digits[k] = c) - 1
RECURSIVE ParseIntFrom(_, _, _)
ParseIntFrom(s, k, acc) ==
    IF k > Len(s) \/ ~(\E j \in 1..10 : Digits[j] = SubSeq(s, k, k)) THEN acc
    ELSE ParseIntFrom(s, k + 1, 10 * acc + DigitValue(SubSeq(s, k, k)))
parseInt(s) == ParseIntFrom(s, 1, 0)

\* a.localeCompare(b) < 0 for names over letters, digits and '-': the root
\* collation orders '-' before digits before letters, a prefix first
CharRank(c) ==
    CASE c = "-" -> 0
      [] c = "a" -> 11 [] c = "b" -> 12 [] c = "c" -> 13 [] c = "d" -> 14
      [] c = "e" -> 15 [] c = "l" -> 22 [] c = "o" -> 25 [] c = "p" -> 26
      [] c = "v" -> 32
      [] OTHER -> 1 + DigitValue(c)
RECURSIVE LocaleLess(_, _, _)
LocaleLess(a, b, k) ==
    IF k > Len(b) THEN FALSE
    ELSE IF k > Len(a) THEN TRUE
    ELSE IF SubSeq(a, k, k) = SubSeq(b, k, k) THEN LocaleLess(a, b, k + 1)
    ELSE CharRank(SubSeq(a, k, k)) < CharRank(SubSeq(b, k, k))

\* The comparators handed to Array.prototype.sort, as "a sorts before b"
compareVmid(a, b) == parseInt(a.vmid) < parseInt(b.vmid)
compareStorage(a, b) == LocaleLess(a.storage, b.storage, 1)
compareNode(a, b) == LocaleLess(a.node, b.node, 1)
Before(cmp, a, b) ==
    CASE cmp = "vmid" -> compareVmid(a, b)
      [] cmp = "storage" -> compareStorage(a, b)
      [] cmp = "node" -> compareNode(a, b)

\* Array.prototype.sort is stable: each element is inserted after the
\* elements that do not compare greater
RECURSIVE InsertSorted(_, _, _)
InsertSorted(s, x, cmp) ==
    IF s = <<>> THEN <<x>>
    ELSE IF Before(cmp, x, Head(s)) THEN <<x>> \o s
    ELSE <<Head(s)>> \o InsertSorted(Tail(s), x, cmp)
RECURSIVE sort(_, _)
sort(s, cmp) ==
    IF s = <<>> THEN <<>>
    ELSE InsertSorted(sort(SubSeq(s, 1, Len(s) - 1), cmp), s[Len(s)], cmp)

(***************************************************************************)
(* The backend: what one fetch can produce.  A response body is a text and *)
(* what JSON.parse makes of it.                                            *)
(***************************************************************************)
TextBody(text) == [text |-> text, json |-> FALSE]
JsonBody(doc) == [text |-> "{json}", json |-> TRUE, doc |-> doc]
NetworkFailure(message) == [kind |-> "network", message |-> message]
Response(status, body) ==
    [kind |-> "response", ok |-> (status >= 200 /\ status < 300), status |-> status,
     body |-> body]
DataResponse(data) == Response(200, JsonBody(JsObj([data |-> data])))

\* !textResponse.trim()
IsBlank(text) == \A k \in 1..Len(text) : SubSeq(text, k, k) \in {" ", "\n", "\t", "\r"}

\* A thrown error and a returned value
Thrown(name, message) == [t |-> "thrown", name |-> name, message |-> message]
Value(data) == [t |-> "value", data |-> data]

\* The try block of proxmoxRequest
fetchAndParse(o) ==
    IF o.kind = "network" THEN Thrown("FetchError", o.message)
    ELSE IF ~o.ok
    THEN Thrown("Error", "Proxmox API error: " \o ToString(o.status) \o " - " \o o.body.text)
    ELSE IF IsBlank(o.body.text) THEN Thrown("Error", "Empty response from Proxmox API")
    ELSE IF ~o.body.json
    THEN Thrown("SyntaxError", "Unexpected token < in JSON at position 0")
    ELSE IF o.body.doc.t = "null"
    THEN Thrown("TypeError", "Cannot read properties of null (reading 'data')")
    ELSE Value(o.body.doc.v.data)

\* The catch clause of proxmoxRequest
rethrow(e) ==
    IF e.name = "SyntaxError"
    THEN Thrown("Error", "Failed to parse Proxmox API response: " \o e.message)
    ELSE Thrown("Error", "Failed to connect to Proxmox: " \o e.message)

proxmoxRequest(o) ==
    LET r == fetchAndParse(o)
    IN IF r.t = "thrown" THEN rethrow(r) ELSE r

\* The kind of a fetch outcome, as the backend produced it
OutcomeKind(o) ==
    IF o.kind = "network" THEN "network"
    ELSE IF ~o.ok THEN "http"
    ELSE IF IsBlank(o.body.text) THEN "empty"
    ELSE IF ~o.body.json THEN "parse"
    ELSE IF o.body.doc.t = "null" THEN "nulldoc"
    ELSE "ok"

FailureOutcomes ==
    {NetworkFailure("connect ECONNREFUSED"),
     Response(500, TextBody("permission denied")),
     Response(401, TextBody("")),
     Response(200, TextBody("")),
     Response(200, TextBody(" \n")),
     Response(200, TextBody("<html>")),
     Response(200, JsonBody(JsNull))}

(***************************************************************************)
(* The cluster the backend describes.                                      *)
(***************************************************************************)
\* The nodes of the cluster, in the order the backend lists them
NodeOrder ==
    <<[node |-> "pve3", status |-> "offline", maxcpu |-> 4, maxmem |-> 2048],
      [node |-> "c", status |-> "online", maxcpu |-> 2, cpu |-> 25, maxmem |-> 1000,
       mem |-> 250],
      [node |-> "b-c", status |-> "online", uptime |-> 90061, maxcpu |-> 2, cpu |-> 50,
       maxmem |-> 1000, mem |-> 500],
      [node |-> "d", status |-> "online"]>>

\* The guests of a node, in the order the backend lists them
GuestOrder ==
    <<[vmid |-> "100", name |-> "web", status |-> "running", uptime |-> 3700, cpu |-> 5,
       mem |-> 512, maxmem |-> 1024],
      [vmid |-> "20", status |-> "stopped"]>>

StorageUniverse ==
    {[storage |-> "a", type |-> "dir", content |-> "images", enabled |-> 1,
      used |-> 1536, total |-> 4096],
     [storage |-> "a-b", enabled |-> 0]}

\* The elements of a sequence at the indices of I, in their order
RECURSIVE Pick(_, _)
Pick(order, I) ==
    IF I = {} THEN <<>>
    ELSE LET i == CHOOSE k \in I : \A j \in I : k <= j
         IN <<order[i]>> \o Pick(order, I \ {i})
\* The subsequences of at most n elements of a sequence
SubSeqs(order, n) ==
    {Pick(order, I) : I \in {J \in SUBSET (1..Len(order)) : Cardinality(J) <= n}}
\* The sequences of length at most n of elements of S
Seqs(S, n) == UNION {[1..k -> S] : k \in 0..n}

NodeLists == SubSeqs(NodeOrder, MaxNodes)
GuestLists == SubSeqs(GuestOrder, MaxGuests)
StorageLists == Seqs(StorageUniverse, MaxStorages)

(***************************************************************************)
(* A handler runs from one await to the next.  A step ends in a backend    *)
(* call to await, in a returned Result Payload or in a thrown error.       *)
(***************************************************************************)
InitLocals ==
    [nodes |-> <<>>, nodesData |-> JsNull, idx |-> 0, nodeVMs |-> JsNull, vms |-> <<>>, storages |-> <<>>,
     uniqueStorages |-> <<>>, clusterStatus |-> JsNull,
     usage |-> [onlineNodes |-> 0, totalNodes |-> 0, totalCpu |-> 0, usedCpu |-> 0,
                totalMem |-> 0, usedMem |-> 0, cpuPercent |-> "", memPercent |-> ""]]

Payload(text) == [content |-> <<[type |-> "text", text |-> text]>>]
Await(label, path, method, L) ==
    [k |-> "await", at |-> label, call |-> [path |-> path, method |-> method], L |-> L]
Return(text, L) == [k |-> "return", payload |-> Payload(text), L |-> L]
Throw(message, L) == [k |-> "throw", message |-> message, L |-> L]

\* { ...item, type, node }
Tagged(item, type, node) ==
    [f \in DOMAIN item \cup {"type", "node"} |->
        IF f = "type" THEN type ELSE IF f = "node" THEN node ELSE item[f]]
\* { ...item, node }
OnNode(item, node) ==
    [f \in DOMAIN item \cup {"node"} |-> IF f = "node" THEN node ELSE item[f]]

toUpperCase(type) ==
    CASE type = "qemu" -> "QEMU" [] type = "lxc" -> "LXC" [] type = "all" -> "ALL"
      [] OTHER -> type

StatusGlyph(status) ==
    IF status = "running" THEN GlyphGreen
    ELSE IF status = "stopped" THEN GlyphRed ELSE GlyphYellow

(***************************************************************************)
(* getNodes                                                                *)
(***************************************************************************)
nodeEntry(node) ==
    LET status == IF Field(node, "status") = "online" THEN GlyphGreen ELSE GlyphRed
        uptime == IF Truthy(node, "uptime") THEN formatUptime(node.uptime) ELSE "N/A"
        cpuUsage == IF Truthy(node, "cpu") THEN ToFixed1(node.cpu, 1) \o "%" ELSE "N/A"
        memUsage ==
            IF Truthy(node, "mem") /\ Truthy(node, "maxmem")
            THEN formatBytes(node.mem) \o " / " \o formatBytes(node.maxmem) \o " ("
                 \o ToFixed1(100 * node.mem, node.maxmem) \o "%)"
            ELSE "N/A"
    IN status \o " **" \o Str(Field(node, "node")) \o "**\n"
       \o "   - Status: " \o Str(Field(node, "status")) \o "\n"
       \o "   - Uptime: " \o uptime \o "\n"
       \o "   - CPU: " \o cpuUsage \o "\n"
       \o "   - Memory: " \o memUsage \o "\n"
       \o "   - Load: " \o (IF Has(node, "loadavg") THEN node.loadavg ELSE "N/A") \o "\n\n"

getNodes(L) == Await("getNodes:/nodes", "/nodes", "GET", L)

getNodesResume(L, r) ==
    IF r.t = "thrown" THEN Throw(r.message, L)
    ELSE IF r.data.t # "list" THEN Throw("nodes is not iterable", L)
    ELSE LET nodes == r.data.v
             body[i \in 0..Len(nodes)] ==
                 IF i = 0 THEN "" ELSE body[i - 1] \o nodeEntry(nodes[i])
         IN Return(GlyphComputer \o "  **Proxmox Cluster Nodes**\n\n" \o body[Len(nodes)],
                   [L EXCEPT !.nodes = nodes])

(***************************************************************************)
(* getNodeStatus                                                           *)
(***************************************************************************)
NodeStatusGate ==
    GlyphWarning \o "  **Node Status Requires Elevated Permissions**\n\n"
    \o "To view detailed node status, set 'PROXMOX_ALLOW_ELEVATED=true' in your .env file "
    \o "and ensure your API token has Sys.Audit permissions.\n\n"
    \o "**Current permissions**: Basic (node listing only)"

\* Mutant of getNodeStatus: the check of the elevated flag is missing
getNodeStatusUngated(elevated, node, L) ==
    Await("getNodeStatus:status", "/nodes/" \o Str(node) \o "/status", "GET", L)

getNodeStatus(elevated, node, L) ==
    IF ~elevated THEN Return(NodeStatusGate, L)
    ELSE Await("getNodeStatus:status", "/nodes/" \o Str(node) \o "/status", "GET", L)

usedOfTotal(o) ==
    formatBytes(o.used) \o " / " \o formatBytes(o.total) \o " ("
    \o ToFixed1(100 * o.used, o.total) \o "%)"

getNodeStatusResume(node, L, r) ==
    IF r.t = "thrown" THEN Throw(r.message, L)
    ELSE IF r.data.t # "obj"
    THEN Throw("Cannot read properties of null (reading 'uptime')", L)
    ELSE LET status == r.data.v
         IN Return(
              GlyphComputer \o "  **Node " \o Str(node) \o " Status**\n\n"
              \o "- **Status**: "
              \o (IF Truthy(status, "uptime") THEN GlyphGreen \o " Online"
                  ELSE GlyphRed \o " Offline") \o "\n"
              \o "- **Uptime**: "
              \o (IF Truthy(status, "uptime") THEN formatUptime(status.uptime) ELSE "N/A")
              \o "\n"
              \o "- **Load Average**: "
              \o (IF Has(status, "loadavg") THEN status.loadavg ELSE "N/A") \o "\n"
              \o "- **CPU Usage**: "
              \o (IF Truthy(status, "cpu") THEN ToFixed1(status.cpu, 1) \o "%" ELSE "N/A")
              \o "\n"
              \o "- **Memory**: "
              \o (IF Has(status, "memory") THEN usedOfTotal(status.memory) ELSE "N/A")
              \o "\n"
              \o "- **Root Disk**: "
              \o (IF Has(status, "rootfs") THEN usedOfTotal(status.rootfs) ELSE "N/A")
              \o "\n", L)

(***************************************************************************)
(* getVMs                                                                  *)
(***************************************************************************)
vmEntry(vm) ==
    LET uptime == IF Truthy(vm, "uptime") THEN formatUptime(vm.uptime) ELSE "N/A"
        cpuUsage == IF Truthy(vm, "cpu") THEN ToFixed1(vm.cpu, 1) \o "%" ELSE "N/A"
        memUsage ==
            IF Truthy(vm, "mem") /\ Truthy(vm, "maxmem")
            THEN formatBytes(vm.mem) \o " / " \o formatBytes(vm.maxmem) ELSE "N/A"
    IN StatusGlyph(Field(vm, "status")) \o " "
       \o (IF vm.type = "qemu" THEN GlyphComputer ELSE GlyphPackage) \o " **"
       \o (IF Has(vm, "name") THEN vm.name ELSE "VM-" \o Str(Field(vm, "vmid")))
       \o "** (ID: " \o Str(Field(vm, "vmid")) \o ")\n"
       \o "   - Node: " \o Str(vm.node) \o "\n"
       \o "   - Status: " \o Str(Field(vm, "status")) \o "\n"
       \o "   - Type: " \o toUpperCase(vm.type) \o "\n"
       \o (IF Field(vm, "status") = "running"
           THEN "   - Uptime: " \o uptime \o "\n" \o "   - CPU: " \o cpuUsage \o "\n"
                \o "   - Memory: " \o memUsage \o "\n"
           ELSE "")
       \o "\n"

\* lines 305-333: the output of getVMs, the guests sorted by parseInt(vmid)
formatVMs(L) ==
    LET sorted == sort(L.vms, "vmid")
        body[i \in 0..Len(sorted)] ==
            IF i = 0 THEN "" ELSE body[i - 1] \o vmEntry(sorted[i])
    IN Return(GlyphLaptop \o " **Virtual Machines**\n\n"
              \o (IF Len(L.vms) = 0 THEN "No virtual machines found.\n"
                  ELSE body[Len(sorted)]),
              [L EXCEPT !.vms = sorted])

WantsQemu(typeFilter) == typeFilter = "all" \/ typeFilter = "qemu"
WantsLxc(typeFilter) == typeFilter = "all" \/ typeFilter = "lxc"

\* nodeVMs.map(vm => ({ ...vm, type, node })) of a list
TagAll(list, type, node) == [i \in 1..Len(list) |-> Tagged(list[i], type, node)]
\* node: vm.node || node.node
TagAllLxc(list, node) ==
    [i \in 1..Len(list) |->
        Tagged(list[i], "lxc", IF Has(list[i], "node") THEN list[i].node ELSE node)]

\* lines 292-302: the loop over the nodes, from node L.idx on, up to its next
\* backend call; phase is the listing the loop is about to reach
RECURSIVE vmLoop(_, _, _)
vmLoop(typeFilter, phase, L) ==
    IF L.idx > Len(L.nodes) THEN formatVMs(L)
    ELSE LET name == Str(Field(L.nodes[L.idx], "node"))
         IN IF phase = "qemu"
            THEN IF WantsQemu(typeFilter)
                 THEN Await("getVMs:node/qemu", "/nodes/" \o name \o "/qemu", "GET", L)
                 ELSE vmLoop(typeFilter, "lxc", L)
            ELSE IF WantsLxc(typeFilter)
                 THEN Await("getVMs:node/lxc", "/nodes/" \o name \o "/lxc", "GET", L)
                 ELSE vmLoop(typeFilter, "qemu", [L EXCEPT !.idx = L.idx + 1])

\* if (nodeFilter): a non-empty string
IsSet(v) == v # Undefined /\ v # ""

getVMs(nodeFilter, typeFilter, L) ==
    IF IsSet(nodeFilter)
    THEN Await("getVMs:filter/qemu", "/nodes/" \o nodeFilter \o "/qemu", "GET", L)
    ELSE Await("getVMs:/nodes", "/nodes", "GET", L)

MapOfNull == "Cannot read properties of null (reading 'map')"

\* lines 283-288: the two listings of the filtered node, kept per the type
collectFiltered(nodeFilter, typeFilter, nodeVMs, nodeLXCs, L) ==
    IF WantsQemu(typeFilter) /\ nodeVMs.t # "list" THEN Throw(MapOfNull, L)
    ELSE IF WantsLxc(typeFilter) /\ nodeLXCs.t # "list" THEN Throw(MapOfNull, L)
    ELSE formatVMs([L EXCEPT !.vms =
            (IF WantsQemu(typeFilter) THEN TagAll(nodeVMs.v, "qemu", nodeFilter) ELSE <<>>)
            \o (IF WantsLxc(typeFilter) THEN TagAll(nodeLXCs.v, "lxc", nodeFilter)
                ELSE <<>>)])

getVMsResume(label, nodeFilter, typeFilter, L, r) ==
    IF r.t = "thrown" THEN Throw(r.message, L)
    ELSE CASE label = "getVMs:filter/qemu" ->
                Await("getVMs:filter/lxc", "/nodes/" \o nodeFilter \o "/lxc", "GET",
                      [L EXCEPT !.nodeVMs = r.data])
           [] label = "getVMs:filter/lxc" ->
                collectFiltered(nodeFilter, typeFilter, L.nodeVMs, r.data, L)
           [] label = "getVMs:/nodes" ->
                IF r.data.t # "list" THEN Throw("nodes is not iterable", L)
                ELSE vmLoop(typeFilter, "qemu", [L EXCEPT !.nodes = r.data.v, !.idx = 1])
           [] label = "getVMs:node/qemu" ->
                IF r.data.t # "list" THEN Throw(MapOfNull, L)
                ELSE vmLoop(typeFilter, "lxc",
                        [L EXCEPT !.vms = L.vms \o
                            TagAll(r.data.v, "qemu", Field(L.nodes[L.idx], "node"))])
           [] label = "getVMs:node/lxc" ->
                IF r.data.t # "list" THEN Throw(MapOfNull, L)
                ELSE vmLoop(typeFilter, "qemu",
                        [L EXCEPT !.vms = L.vms \o
                            TagAllLxc(r.data.v, Field(L.nodes[L.idx], "node")),
                                  !.idx = L.idx + 1])

(***************************************************************************)
(* getVMStatus                                                             *)
(***************************************************************************)
getVMStatus(node, vmid, type, L) ==
    Await("getVMStatus:current",
          "/nodes/" \o Str(node) \o "/" \o type \o "/" \o Str(vmid) \o "/status/current",
          "GET", L)

bytesOrNA(o, f) == IF Truthy(o, f) THEN formatBytes(o[f]) ELSE "N/A"

getVMStatusResume(node, vmid, type, L, r) ==
    IF r.t = "thrown" THEN Throw(r.message, L)
    ELSE IF r.data.t # "obj"
    THEN Throw("Cannot read properties of null (reading 'status')", L)
    ELSE LET vmStatus == r.data.v
         IN Return(
              StatusGlyph(Field(vmStatus, "status")) \o " "
              \o (IF type = "qemu" THEN GlyphComputer ELSE GlyphPackage) \o " **"
              \o (IF Has(vmStatus, "name") THEN vmStatus.name ELSE "VM-" \o Str(vmid))
              \o "** (ID: " \o Str(vmid) \o ")\n\n"
              \o "- **Node**: " \o Str(node) \o "\n"
              \o "- **Status**: " \o Str(Field(vmStatus, "status")) \o "\n"
              \o "- **Type**: " \o toUpperCase(type) \o "\n"
              \o (IF Field(vmStatus, "status") = "running"
                  THEN "- **Uptime**: "
                       \o (IF Truthy(vmStatus, "uptime") THEN formatUptime(vmStatus.uptime)
                           ELSE "N/A") \o "\n"
                       \o "- **CPU Usage**: "
                       \o (IF Truthy(vmStatus, "cpu") THEN ToFixed1(vmStatus.cpu, 1) \o "%"
                           ELSE "N/A") \o "\n"
                       \o "- **Memory**: "
                       \o (IF Truthy(vmStatus, "mem") /\ Truthy(vmStatus, "maxmem")
                           THEN formatBytes(vmStatus.mem) \o " / "
                                \o formatBytes(vmStatus.maxmem) \o " ("
                                \o ToFixed1(100 * vmStatus.mem, vmStatus.maxmem) \o "%)"
                           ELSE "N/A") \o "\n"
                       \o "- **Disk Read**: " \o bytesOrNA(vmStatus, "diskread") \o "\n"
                       \o "- **Disk Write**: " \o bytesOrNA(vmStatus, "diskwrite") \o "\n"
                       \o "- **Network In**: " \o bytesOrNA(vmStatus, "netin") \o "\n"
                       \o "- **Network Out**: " \o bytesOrNA(vmStatus, "netout") \o "\n"
                  ELSE ""), L)

(***************************************************************************)
(* executeVMCommand                                                        *)
(***************************************************************************)
ExecGate(command) ==
    GlyphWarning \o "  **VM Command Execution Requires Elevated Permissions**\n\n"
    \o "To execute commands on VMs, set 'PROXMOX_ALLOW_ELEVATED=true' in your .env file "
    \o "and ensure your API token has appropriate VM permissions.\n\n"
    \o "**Current permissions**: Basic (VM listing only)\n"
    \o "**Requested command**: '" \o Str(command) \o "'"

\* Mutant of execFailed: executeVMCommand without its catch clause
execRethrown(vmid, message, L) == Throw(message, L)

\* lines 403-409: the catch clause of executeVMCommand
execFailed(vmid, message, L) ==
    Return(GlyphCross \o " **Failed to execute command on VM " \o Str(vmid) \o "**\n\n"
           \o "Error: " \o message \o "\n\n"
           \o "*Note: Make sure the VM has guest agent installed and running*", L)

executeVMCommand(elevated, node, vmid, command, type, L) ==
    IF ~elevated THEN Return(ExecGate(command), L)
    ELSE IF type = "qemu"
    THEN Await("executeVMCommand:agent/exec",
               "/nodes/" \o Str(node) \o "/qemu/" \o Str(vmid) \o "/agent/exec", "POST", L)
    ELSE Await("executeVMCommand:lxc/exec",
               "/nodes/" \o Str(node) \o "/lxc/" \o Str(vmid) \o "/exec", "POST", L)

executeVMCommandResume(label, vmid, command, L, r) ==
    IF r.t = "thrown" THEN execFailed(vmid, r.message, L)
    ELSE IF label = "executeVMCommand:agent/exec"
    THEN IF r.data.t # "obj"
         THEN execFailed(vmid, "Cannot read properties of null (reading 'pid')", L)
         ELSE Return(GlyphLaptop \o " **Command executed on VM " \o Str(vmid) \o "**\n\n"
                     \o "**Command**: '" \o Str(command) \o "'\n"
                     \o "**Result**: Command submitted to guest agent\n"
                     \o "**PID**: "
                     \o (IF Truthy(r.data.v, "pid") THEN ToString(r.data.v.pid) ELSE "N/A")
                     \o "\n\n"
                     \o "*Note: Use guest agent status to check command completion*", L)
    ELSE Return(GlyphPackage \o " **Command executed on LXC " \o Str(vmid) \o "**\n\n"
                \o "**Command**: '" \o Str(command) \o "'\n"
                \o "**Output**:\n'''\n"
                \o (IF r.data.t = "str" /\ r.data.v # "" THEN r.data.v
                    ELSE "Command executed successfully")
                \o "\n'''", L)

(***************************************************************************)
(* getStorage                                                              *)
(***************************************************************************)
\* line 437: the key a storage is remembered under
storageKey(storage) == Str(Field(storage, "storage")) \o "-" \o Str(storage.node)

\* lines 433-442: the first storage of each key, in order
RECURSIVE dedupe(_, _, _)
dedupe(storages, seen, uniqueStorages) ==
    IF storages = <<>> THEN uniqueStorages
    ELSE LET key == storageKey(Head(storages))
         IN IF key \in seen THEN dedupe(Tail(storages), seen, uniqueStorages)
            ELSE dedupe(Tail(storages), seen \cup {key},
                        Append(uniqueStorages, Head(storages)))

storageEntry(storage) ==
    LET both == Truthy(storage, "total") /\ Truthy(storage, "used")
    IN (IF Truthy(storage, "enabled") THEN GlyphGreen ELSE GlyphRed)
       \o " **" \o storage.storage \o "**\n"
       \o "   - Node: " \o Str(storage.node) \o "\n"
       \o "   - Type: " \o (IF Has(storage, "type") THEN storage.type ELSE "N/A") \o "\n"
       \o "   - Content: " \o (IF Has(storage, "content") THEN storage.content ELSE "N/A")
       \o "\n"
       \o (IF both
           THEN "   - Usage: " \o formatBytes(storage.used) \o " / "
                \o formatBytes(storage.total) \o " ("
                \o ToFixed1(100 * storage.used, storage.total) \o "%)\n"
           ELSE "")
       \o "   - Status: " \o (IF Truthy(storage, "enabled") THEN "Enabled" ELSE "Disabled")
       \o "\n\n"

\* lines 428-462
formatStorage(L) ==
    LET uniqueStorages == sort(dedupe(L.storages, {}, <<>>), "storage")
        body[i \in 0..Len(uniqueStorages)] ==
            IF i = 0 THEN "" ELSE body[i - 1] \o storageEntry(uniqueStorages[i])
    IN Return(GlyphDisk \o " **Storage Pools**\n\n"
              \o (IF Len(L.storages) = 0 THEN "No storage found.\n"
                  ELSE body[Len(uniqueStorages)]),
              [L EXCEPT !.uniqueStorages = uniqueStorages])

OnNodeAll(list, node) == [i \in 1..Len(list) |-> OnNode(list[i], node)]

\* Mutant of storageLoop: the loop walks the nodes from the last to the first
storageLoopBackwards(L) ==
    IF L.idx > Len(L.nodes) THEN formatStorage(L)
    ELSE Await("getStorage:node/storage",
               "/nodes/" \o Str(Field(L.nodes[Len(L.nodes) + 1 - L.idx], "node"))
               \o "/storage", "GET", L)

\* lines 422-425, from node L.idx on
storageLoop(L) ==
    IF L.idx > Len(L.nodes) THEN formatStorage(L)
    ELSE Await("getStorage:node/storage",
               "/nodes/" \o Str(Field(L.nodes[L.idx], "node")) \o "/storage", "GET", L)

getStorage(nodeFilter, L) ==
    IF IsSet(nodeFilter)
    THEN Await("getStorage:filter/storage", "/nodes/" \o nodeFilter \o "/storage", "GET", L)
    ELSE Await("getStorage:/nodes", "/nodes", "GET", L)

getStorageResume(label, nodeFilter, L, r) ==
    IF r.t = "thrown" THEN Throw(r.message, L)
    ELSE CASE label = "getStorage:filter/storage" ->
                IF r.data.t # "list" THEN Throw(MapOfNull, L)
                ELSE formatStorage([L EXCEPT !.storages = OnNodeAll(r.data.v, nodeFilter)])
           [] label = "getStorage:/nodes" ->
                IF r.data.t # "list" THEN Throw("nodes is not iterable", L)
                ELSE storageLoop([L EXCEPT !.nodes = r.data.v, !.idx = 1])
           [] label = "getStorage:node/storage" ->
                IF r.data.t # "list" THEN Throw(MapOfNull, L)
                ELSE storageLoop(
                        [L EXCEPT !.storages = L.storages \o
                            OnNodeAll(r.data.v, Field(L.nodes[L.idx], "node")),
                                  !.idx = L.idx + 1])

(***************************************************************************)
(* getClusterStatus                                                        *)
(***************************************************************************)
\* lines 522-529: the catch clause of getClusterStatus
clusterFailed(message, L) ==
    Return(GlyphCross \o " **Failed to get cluster status**\n\nError: " \o message, L)

IsOnline(node) == Field(node, "status") = "online"

\* nodes.filter(n => n.status === 'online').length
RECURSIVE countOnline(_)
countOnline(nodes) ==
    IF nodes = <<>> THEN 0
    ELSE (IF IsOnline(Head(nodes)) THEN 1 ELSE 0) + countOnline(Tail(nodes))

\* Mutant of sumUsage: the loop adds up the offline nodes too
RECURSIVE sumUsageOfAllNodes(_, _)
sumUsageOfAllNodes(nodes, acc) ==
    IF nodes = <<>> THEN acc
    ELSE LET node == Head(nodes)
         IN sumUsageOfAllNodes(Tail(nodes),
                [acc EXCEPT !.totalCpu = @ + Num(node, "maxcpu"),
                            !.usedCpu = @ + Num(node, "cpu") * Num(node, "maxcpu"),
                            !.totalMem = @ + Num(node, "maxmem"),
                            !.usedMem = @ + Num(node, "mem")])

\* lines 493-500: the loop that adds up the nodes; usedCpu is in 1/100 core
RECURSIVE sumUsage(_, _)
sumUsage(nodes, acc) ==
    IF nodes = <<>> THEN acc
    ELSE LET node == Head(nodes)
         IN IF IsOnline(node)
            THEN sumUsage(Tail(nodes),
                    [acc EXCEPT !.totalCpu = @ + Num(node, "maxcpu"),
                                !.usedCpu = @ + Num(node, "cpu") * Num(node, "maxcpu"),
                                !.totalMem = @ + Num(node, "maxmem"),
                                !.usedMem = @ + Num(node, "mem")])
            ELSE sumUsage(Tail(nodes), acc)

\* lines 482-510: the figures of the cluster overview
clusterUsage(elevated, nodes) ==
    LET sums == IF elevated
                THEN sumUsage(nodes, [totalCpu |-> 0, usedCpu |-> 0, totalMem |-> 0,
                                      usedMem |-> 0])
                ELSE [totalCpu |-> 0, usedCpu |-> 0, totalMem |-> 0, usedMem |-> 0]
    IN [onlineNodes |-> countOnline(nodes), totalNodes |-> Len(nodes),
        totalCpu |-> sums.totalCpu, usedCpu |-> sums.usedCpu,
        totalMem |-> sums.totalMem, usedMem |-> sums.usedMem,
        cpuPercent |-> IF ~elevated THEN ""
                       ELSE IF sums.totalCpu > 0 THEN ToFixed1(sums.usedCpu, sums.totalCpu)
                       ELSE "N/A",
        memPercent |-> IF ~elevated THEN ""
                       ELSE IF sums.totalMem > 0
                       THEN ToFixed1(100 * sums.usedMem, sums.totalMem)
                       ELSE "N/A"]

nodeLine(node) ==
    (IF IsOnline(node) THEN GlyphGreen ELSE GlyphRed) \o " " \o node.node \o " - "
    \o Str(Field(node, "status")) \o "\n"

\* lines 479-521: the output, once the backend calls are over
assembleCluster(elevated, data, L) ==
    IF data.t # "list"
    THEN clusterFailed("Cannot read properties of null (reading 'filter')", L)
    ELSE LET nodes == data.v
             u == clusterUsage(elevated, nodes)
             sorted == sort(nodes, "node")
             details[i \in 0..Len(sorted)] ==
                 IF i = 0 THEN "" ELSE details[i - 1] \o nodeLine(sorted[i])
         IN Return(
              GlyphCrane \o "  **Proxmox Cluster Status**\n\n"
              \o "**Cluster Health**: "
              \o (IF u.onlineNodes = u.totalNodes THEN GlyphGreen \o " Healthy"
                  ELSE GlyphYellow \o " Warning") \o "\n"
              \o "**Nodes**: " \o ToString(u.onlineNodes) \o "/" \o ToString(u.totalNodes)
              \o " online\n\n"
              \o (IF elevated
                  THEN "**Resource Usage**:\n"
                       \o "- CPU: " \o u.cpuPercent \o "% (" \o ToFixed1(u.usedCpu, 100)
                       \o "/" \o ToString(u.totalCpu) \o " cores)\n"
                       \o "- Memory: " \o u.memPercent \o "% (" \o formatBytes(u.usedMem)
                       \o "/" \o formatBytes(u.totalMem) \o ")\n\n"
                  ELSE GlyphWarning \o "  **Limited Information**: Resource usage requires "
                       \o "elevated permissions\n\n")
              \o "**Node Details**:\n" \o details[Len(sorted)],
              [L EXCEPT !.nodes = sorted, !.usage = u])

getClusterStatus(L) == Await("getClusterStatus:/nodes", "/nodes", "GET", L)

\* Mutant of getClusterStatusResume: the /cluster/status call has no try of
\* its own, so that its failure reaches the catch clause of the handler
getClusterStatusResumeStrict(elevated, label, L, r) ==
    IF r.t = "thrown" THEN clusterFailed(r.message, L)
    ELSE IF label = "getClusterStatus:/nodes"
    THEN IF elevated
         THEN Await("getClusterStatus:/cluster/status", "/cluster/status", "GET",
                    [L EXCEPT !.nodesData = r.data])
         ELSE assembleCluster(elevated, r.data, [L EXCEPT !.nodesData = r.data])
    ELSE assembleCluster(elevated, L.nodesData, [L EXCEPT !.clusterStatus = r.data])

getClusterStatusResume(elevated, label, L, r) ==
    IF label = "getClusterStatus:/nodes"
    THEN IF r.t = "thrown" THEN clusterFailed(r.message, L)
         ELSE IF elevated
         THEN Await("getClusterStatus:/cluster/status", "/cluster/status", "GET",
                    [L EXCEPT !.nodesData = r.data])
         ELSE assembleCluster(elevated, r.data, [L EXCEPT !.nodesData = r.data])
    ELSE \* lines 472-476: a failure of /cluster/status is ignored
         assembleCluster(elevated, L.nodesData,
            IF r.t = "thrown" THEN L ELSE [L EXCEPT !.clusterStatus = r.data])

(***************************************************************************)
(* The catalog and the call-tool request handler                           *)
(***************************************************************************)
\* lines 102-180: the tools of the catalog and the arguments they require
Catalog ==
    {"proxmox_get_nodes", "proxmox_get_node_status", "proxmox_get_vms",
     "proxmox_get_vm_status", "proxmox_execute_vm_command", "proxmox_get_storage",
     "proxmox_get_cluster_status"}

Required(name) ==
    CASE name = "proxmox_get_node_status" -> {"node"}
      [] name = "proxmox_get_vm_status" -> {"node", "vmid"}
      [] name = "proxmox_execute_vm_command" -> {"node", "vmid", "command"}
      [] OTHER -> {}

Properties(name) ==
    CASE name = "proxmox_get_node_status" -> {"node"}
      [] name = "proxmox_get_vms" -> {"node", "type"}
      [] name = "proxmox_get_vm_status" -> {"node", "vmid", "type"}
      [] name = "proxmox_execute_vm_command" -> {"node", "vmid", "command", "type"}
      [] name = "proxmox_get_storage" -> {"node"}
      [] OTHER -> {}

\* request.params.arguments: absent, or an object
NoArguments == [present |-> FALSE]
Arguments(object) == [present |-> TRUE, v |-> object]
\* args.f of an arguments object
Arg(args, f) == Field(args.v, f)
\* a parameter's default value
Default(v, d) == IF v = Undefined THEN d ELSE v

ArgsOfUndefined == "Cannot read properties of undefined (reading 'node')"

\* Mutant of dispatch: the switch has drifted from the catalog and lacks the
\* case of proxmox_get_cluster_status
dispatchWithoutClusterCase(elevated, name, args, L) ==
    CASE name = "proxmox_get_nodes" -> getNodes(L)
      [] name = "proxmox_get_node_status" ->
           IF ~args.present THEN Throw(ArgsOfUndefined, L)
           ELSE getNodeStatus(elevated, Arg(args, "node"), L)
      [] name = "proxmox_get_vms" ->
           IF ~args.present THEN Throw(ArgsOfUndefined, L)
           ELSE getVMs(Arg(args, "node"), Default(Arg(args, "type"), "all"), L)
      [] name = "proxmox_get_vm_status" ->
           IF ~args.present THEN Throw(ArgsOfUndefined, L)
           ELSE getVMStatus(Arg(args, "node"), Arg(args, "vmid"),
                            Default(Arg(args, "type"), "qemu"), L)
      [] name = "proxmox_execute_vm_command" ->
           IF ~args.present THEN Throw(ArgsOfUndefined, L)
           ELSE executeVMCommand(elevated, Arg(args, "node"), Arg(args, "vmid"),
                                 Arg(args, "command"), Default(Arg(args, "type"), "qemu"),
                                 L)
      [] name = "proxmox_get_storage" ->
           IF ~args.present THEN Throw(ArgsOfUndefined, L)
           ELSE getStorage(Arg(args, "node"), L)
      [] OTHER -> Throw("Unknown tool: " \o name, L)

\* lines 186-210: the switch on the tool name, up to the first backend call;
\* a case that reads args.node of absent arguments throws
dispatch(elevated, name, args, L) ==
    CASE name = "proxmox_get_nodes" -> getNodes(L)
      [] name = "proxmox_get_node_status" ->
           IF ~args.present THEN Throw(ArgsOfUndefined, L)
           ELSE getNodeStatus(elevated, Arg(args, "node"), L)
      [] name = "proxmox_get_vms" ->
           IF ~args.present THEN Throw(ArgsOfUndefined, L)
           ELSE getVMs(Arg(args, "node"), Default(Arg(args, "type"), "all"), L)
      [] name = "proxmox_get_vm_status" ->
           IF ~args.present THEN Throw(ArgsOfUndefined, L)
           ELSE getVMStatus(Arg(args, "node"), Arg(args, "vmid"),
                            Default(Arg(args, "type"), "qemu"), L)
      [] name = "proxmox_execute_vm_command" ->
           IF ~args.present THEN Throw(ArgsOfUndefined, L)
           ELSE executeVMCommand(elevated, Arg(args, "node"), Arg(args, "vmid"),
                                 Arg(args, "command"), Default(Arg(args, "type"), "qemu"),
                                 L)
      [] name = "proxmox_get_storage" ->
           IF ~args.present THEN Throw(ArgsOfUndefined, L)
           ELSE getStorage(Arg(args, "node"), L)
      [] name = "proxmox_get_cluster_status" -> getClusterStatus(L)
      [] OTHER -> Throw("Unknown tool: " \o name, L)

\* The handler that awaits at label, resumed with what proxmoxRequest gave
resume(elevated, name, args, label, L, r) ==
    CASE name = "proxmox_get_nodes" -> getNodesResume(L, r)
      [] name = "proxmox_get_cluster_status" -> getClusterStatusResume(elevated, label, L, r)
      [] name = "proxmox_get_node_status" -> getNodeStatusResume(Arg(args, "node"), L, r)
      [] name = "proxmox_get_vms" ->
           getVMsResume(label, Arg(args, "node"), Default(Arg(args, "type"), "all"), L, r)
      [] name = "proxmox_get_vm_status" ->
           getVMStatusResume(Arg(args, "node"), Arg(args, "vmid"),
                             Default(Arg(args, "type"), "qemu"), L, r)
      [] name = "proxmox_execute_vm_command" ->
           executeVMCommandResume(label, Arg(args, "vmid"), Arg(args, "command"), L, r)
      [] name = "proxmox_get_storage" -> getStorageResume(label, Arg(args, "node"), L, r)

\* Mutant of catchAll: the handler without its catch clause
catchNothing(step) == step

\* lines 211-220: the catch clause of the call-tool handler
catchAll(step) ==
    IF step.k = "throw" THEN Return("Error: " \o step.message, step.L) ELSE step

(***************************************************************************)
(* The requests the host sends and the data the backend answers with       *)
(***************************************************************************)
UnknownNames == {"proxmox_reboot_node", "getNodes"}
ToolNames == Catalog \cup UnknownNames

ArgValues(f) ==
    CASE f = "node" -> {"c"}
      [] f = "vmid" -> {"100"}
      [] f = "command" -> {"uptime"}
      [] f = "type" -> {"qemu", "lxc", "all"}

\* The arguments objects over the properties the tool declares
ArgumentsOf(name) ==
    LET objects == UNION {{o \in [S -> {"c", "100", "uptime", "qemu", "lxc", "all"}] :
                              \A f \in S : o[f] \in ArgValues(f)} :
                          S \in SUBSET Properties(name)}
    IN {NoArguments} \cup {Arguments(o) : o \in objects}

DataFor(label) ==
    CASE label \in {"getNodes:/nodes", "getVMs:/nodes", "getStorage:/nodes",
                    "getClusterStatus:/nodes"} ->
             {JsNull} \cup {JsList(l) : l \in NodeLists}
      [] label = "getNodeStatus:status" ->
             {JsNull,
              JsObj([uptime |-> 90061, loadavg |-> "0.10, 0.20, 0.30", cpu |-> 12,
                     memory |-> [used |-> 512, total |-> 2048],
                     rootfs |-> [used |-> 1024, total |-> 4096]]),
              JsObj([cpu |-> 0])}
      [] label \in {"getVMs:filter/qemu", "getVMs:filter/lxc", "getVMs:node/qemu",
                    "getVMs:node/lxc"} ->
             {JsNull} \cup {JsList(l) : l \in GuestLists}
      [] label = "getVMStatus:current" ->
             {JsNull} \cup {JsObj(GuestOrder[i]) : i \in 1..Len(GuestOrder)}
      [] label = "executeVMCommand:agent/exec" ->
             {JsNull, JsObj([pid |-> 4242]), JsObj([pid |-> 0])}
      [] label = "executeVMCommand:lxc/exec" -> {JsNull, JsStr("up 1 day")}
      [] label \in {"getStorage:filter/storage", "getStorage:node/storage"} ->
             {JsNull} \cup {JsList(l) : l \in StorageLists}
      [] label = "getClusterStatus:/cluster/status" ->
             {JsNull, JsList(<<[type |-> "cluster", name |-> "lab", quorate |-> 1]>>)}

\* What the outstanding fetch can produce; nothing when no fetch is outstanding
Outcomes(label) ==
    IF label = "" THEN {}
    ELSE FailureOutcomes \cup {DataResponse(d) : d \in DataFor(label)}

(***************************************************************************)
(* The state machine                                                       *)
(***************************************************************************)
NoResult == [status |-> "none"]
NoCall == [path |-> "", method |-> ""]

\* A step of the handler ends the action: the call it awaits is issued, or
\* its result goes to the host
Settle(step) ==
    /\ locals' = step.L
    /\ IF step.k = "await"
       THEN /\ pc' = "await"
            /\ at' = step.at
            /\ pending' = step.call
            /\ calls' = Append(IF pc = "idle" THEN <<>> ELSE calls, step.call)
            /\ result' = NoResult
       ELSE /\ pc' = "done"
            /\ at' = ""
            /\ pending' = NoCall
            /\ calls' = IF pc = "idle" THEN <<>> ELSE calls
            /\ result' = IF step.k = "return"
                         THEN [status |-> "returned", payload |-> step.payload]
                         ELSE [status |-> "thrown", message |-> step.message]

Init ==
    /\ allowElevated \in BOOLEAN
    /\ pc = "idle"
    /\ request = [name |-> "", args |-> NoArguments]
    /\ at = ""
    /\ locals = InitLocals
    /\ pending = NoCall
    /\ calls = <<>>
    /\ outcomes = <<>>
    /\ received = <<>>
    /\ result = NoResult

\* The host sends a call-tool request: the handler runs to its first await
CallTool(name, args) ==
    /\ pc = "idle"
    /\ request' = [name |-> name, args |-> args]
    /\ outcomes' = <<>>
    /\ received' = <<>>
    /\ Settle(catchAll(dispatch(allowElevated, name, args, InitLocals)))
    /\ UNCHANGED allowElevated

\* The outstanding fetch settles: the handler runs to its next await
BackendResponds(o) ==
    /\ pc = "await"
    /\ outcomes' = Append(outcomes, OutcomeKind(o))
    /\ received' = Append(received, proxmoxRequest(o))
    /\ Settle(catchAll(resume(allowElevated, request.name, request.args, at, locals,
                              proxmoxRequest(o))))
    /\ UNCHANGED <<allowElevated, request>>

\* The host takes the result
Deliver ==
    /\ pc = "done"
    /\ pc' = "idle"
    /\ request' = [name |-> "", args |-> NoArguments]
    /\ locals' = InitLocals
    /\ calls' = <<>>
    /\ outcomes' = <<>>
    /\ received' = <<>>
    /\ result' = NoResult
    /\ UNCHANGED <<allowElevated, at, pending>>

Next ==
    \/ \E name \in ToolNames : \E args \in ArgumentsOf(name) : CallTool(name, args)
    \/ \E o \in Outcomes(at) : BackendResponds(o)
    \/ Deliver

Spec == Init /\ [][Next]_vars


(***************************************************************************)
(* What the properties speak of                                            *)
(***************************************************************************)
StartsWith(text, prefix) ==
    Len(text) >= Len(prefix) /\ SubSeq(text, 1, Len(prefix)) = prefix
EndsWith(text, suffix) ==
    Len(text) >= Len(suffix)
    /\ SubSeq(text, Len(text) - Len(suffix) + 1, Len(text)) = suffix

Done == pc = "done"
Returned == pc = "done" /\ result.status = "returned"
\* The text of the one item of the returned payload
ResultText == result.payload.content[1].text
\* The paths of the backend calls of the current request
Paths == {calls[i].path : i \in 1..Len(calls)}
\* The backend call i of the current request failed in proxmoxRequest
Failed(i) == i <= Len(outcomes) /\ outcomes[i] # "ok"
ArgPresent(f) == request.args.present /\ Has(request.args.v, f)

(***************************************************************************)
(* C1: whatever the request and whatever the backend answers, the          *)
(* call-tool handler ends with a returned Result Payload: a non-empty      *)
(* sequence of items {type: "text", text: <string>}; it never ends with a  *)
(* thrown error, and before it ends nothing has been handed to the host.   *)
(***************************************************************************)
C1_ResultPayload ==
    /\ pc = "done" =>
         /\ result.status = "returned"
         /\ DOMAIN result.payload = {"content"}
         /\ Len(result.payload.content) >= 1
         /\ \A i \in 1..Len(result.payload.content) :
              /\ DOMAIN result.payload.content[i] = {"type", "text"}
              /\ result.payload.content[i].type = "text"
              /\ result.payload.content[i].text \in STRING
    /\ pc # "done" => result = NoResult

\* an error thrown while reading an odd response (a JSON document that is
\* null) ends in a payload
C1_Witness ==
    /\ Returned
    /\ request.name = "proxmox_get_storage"
    /\ Len(outcomes) = 2
    /\ outcomes[2] = "nulldoc"
    /\ StartsWith(ResultText, "Error: Failed to connect to Proxmox: Cannot read")

(***************************************************************************)
(* C2: a tool name outside the catalog gets the one-item payload           *)
(* "Error: Unknown tool: <name>" and no backend call; a name of the        *)
(* catalog never gets the unknown-tool text.                               *)
(***************************************************************************)
C2_UnknownTool ==
    /\ (pc # "idle" /\ request.name \notin Catalog) =>
         /\ pc = "done"
         /\ calls = <<>>
         /\ result = [status |-> "returned",
                      payload |-> Payload("Error: Unknown tool: " \o request.name)]
    /\ (pc = "done" /\ request.name \in Catalog) =>
         /\ result.status = "returned"
         /\ ~StartsWith(ResultText, "Error: Unknown tool: ")

C2_Witness ==
    /\ Returned
    /\ request.name = "proxmox_reboot_node"
    /\ ResultText = "Error: Unknown tool: proxmox_reboot_node"


(***************************************************************************)
(* C3 as stated: with the elevated flag false, node-status and guest-exec  *)
(* return their instructional payload and issue no backend call for every  *)
(* argument value; guest-status and list-guests issue the same backend     *)
(* calls and return the same payload whether the flag is true or false.    *)
(***************************************************************************)
Gated == {"proxmox_get_node_status", "proxmox_execute_vm_command"}
Ungated == {"proxmox_get_vms", "proxmox_get_vm_status"}

\* The step a request of an ungated tool takes next does not depend on the flag
FlagIndifferent ==
    /\ pc = "idle" =>
         \A name \in Ungated : \A args \in ArgumentsOf(name) :
            catchAll(dispatch(TRUE, name, args, InitLocals))
              = catchAll(dispatch(FALSE, name, args, InitLocals))
    /\ (pc = "await" /\ request.name \in Ungated) =>
         \A o \in Outcomes(at) :
            catchAll(resume(TRUE, request.name, request.args, at, locals,
                            proxmoxRequest(o)))
              = catchAll(resume(FALSE, request.name, request.args, at, locals,
                                proxmoxRequest(o)))

C3_GateForEveryArgument ==
    /\ (~allowElevated /\ pc # "idle" /\ request.name \in Gated) =>
         /\ pc = "done"
         /\ calls = <<>>
         /\ result.status = "returned"
         /\ StartsWith(ResultText, GlyphWarning)
    /\ FlagIndifferent

(***************************************************************************)
(* C3 amended: with the elevated flag false, node-status and guest-exec    *)
(* issue no backend call for any request; they return their instructional  *)
(* payload whenever the request carries an arguments object, whatever its  *)
(* fields, and the dispatcher's Error payload when the request carries no  *)
(* arguments object; guest-status and list-guests take the same steps      *)
(* whether the flag is true or false.                                      *)
(***************************************************************************)
C3_Gate ==
    /\ (~allowElevated /\ pc # "idle" /\ request.name \in Gated) =>
         /\ pc = "done"
         /\ calls = <<>>
         /\ result.status = "returned"
         /\ request.args.present =>
              ResultText = IF request.name = "proxmox_get_node_status"
                           THEN NodeStatusGate
                           ELSE ExecGate(Arg(request.args, "command"))
         /\ ~request.args.present => ResultText = "Error: " \o ArgsOfUndefined
    /\ FlagIndifferent

C3_Witness ==
    /\ ~allowElevated
    /\ Returned
    /\ request.name = "proxmox_execute_vm_command"
    /\ ArgPresent("command") /\ ArgPresent("node") /\ ArgPresent("vmid")
    /\ calls = <<>>
    /\ ResultText = ExecGate("uptime")

(***************************************************************************)
(* C4: a request that omits an argument its tool requires is answered with *)
(* an error payload (or the gate's payload) and no backend call is issued  *)
(* for it.                                                                 *)
(***************************************************************************)
MissesRequired ==
    /\ request.name \in Catalog
    /\ \E f \in Required(request.name) : ~ArgPresent(f)

C4_RequiredArgumentsChecked ==
    (pc # "idle" /\ MissesRequired) =>
        /\ pc = "done"
        /\ calls = <<>>
        /\ result.status = "returned"
        /\ StartsWith(ResultText, "Error: ") \/ StartsWith(ResultText, GlyphWarning)

(***************************************************************************)
(* C5: the four failure kinds of the backend client are reported in        *)
(* different categories (the text before the first colon of the message):  *)
(* the category of a failed call is never the category the client gives to *)
(* a failure of another kind, and a non-2xx failure carries the status     *)
(* code and the body.                                                      *)
(***************************************************************************)
RECURSIVE UpToColon(_, _)
UpToColon(text, k) ==
    IF k > Len(text) THEN text
    ELSE IF SubSeq(text, k, k) = ":" THEN SubSeq(text, 1, k - 1)
    ELSE UpToColon(text, k + 1)
Category(message) == UpToColon(message, 1)

FourKinds == {"http", "empty", "parse", "network"}
\* The categories the client reports the failures of the kinds K in
CategoriesOf(K) ==
    {Category(proxmoxRequest(o).message) : o \in {f \in FailureOutcomes : OutcomeKind(f) \in K}}

C5_FailureKindsDistinct ==
    (/\ Returned
     /\ request.name = "proxmox_get_nodes"
     /\ Len(outcomes) = 1
     /\ outcomes[1] \in {"http", "empty", "parse"}) =>
        /\ StartsWith(ResultText, "Error: ")
        /\ Category(SubSeq(ResultText, 8, Len(ResultText)))
             \notin CategoriesOf(FourKinds \ {outcomes[1]})
        /\ outcomes[1] = "http" =>
             \E o \in FailureOutcomes :
                /\ OutcomeKind(o) = "http"
                /\ EndsWith(ResultText, ToString(o.status) \o " - " \o o.body.text)

(***************************************************************************)
(* C6: list-guests with a node filter calls only the listing endpoints of  *)
(* the requested type: never .../lxc for type qemu, never .../qemu for     *)
(* type lxc, both for type all.                                            *)
(***************************************************************************)
C6_OnlyRequestedTypes ==
    (request.name = "proxmox_get_vms" /\ ArgPresent("node")) =>
        LET node == Arg(request.args, "node")
            type == Default(Arg(request.args, "type"), "all")
        IN /\ type = "qemu" => ("/nodes/" \o node \o "/lxc") \notin Paths
           /\ type = "lxc" => ("/nodes/" \o node \o "/qemu") \notin Paths
           /\ (type = "all" /\ Returned /\ ~StartsWith(ResultText, "Error: ")) =>
                Paths = {"/nodes/" \o node \o "/qemu", "/nodes/" \o node \o "/lxc"}

(***************************************************************************)
(* C7: list-storage shows exactly one entry per pair (storage name, node)  *)
(* among the entries gathered, the first of each pair; entries of          *)
(* different pairs are never collapsed.                                    *)
(***************************************************************************)
PairOf(storage) == <<storage.storage, storage.node>>

C7_DedupByPair ==
    (/\ Returned
     /\ request.name = "proxmox_get_storage"
     /\ ~StartsWith(ResultText, "Error: ")) =>
        LET all == locals.storages
            shown == locals.uniqueStorages
            First(p) == CHOOSE i \in 1..Len(all) :
                           /\ PairOf(all[i]) = p
                           /\ \A j \in 1..(i - 1) : PairOf(all[j]) # p
        IN /\ \A i \in 1..Len(all) :
                Cardinality({j \in 1..Len(shown) : PairOf(shown[j]) = PairOf(all[i])}) = 1
           /\ \A j \in 1..Len(shown) :
                /\ \E i \in 1..Len(all) : PairOf(all[i]) = PairOf(shown[j])
                /\ shown[j] = all[First(PairOf(shown[j]))]


(***************************************************************************)
(* C8: cluster-status with elevated access: once /nodes has succeeded, the *)
(* /cluster/status call is made and, whatever its outcome, the payload is  *)
(* the one returned when that call succeeds; without elevated access       *)
(* /cluster/status is never called.                                        *)
(***************************************************************************)
IsCluster == request.name = "proxmox_get_cluster_status"

\* The payloads cluster-status returns for the nodes data when /cluster/status succeeds
WithStatusSucceeding(nodesData) ==
    {catchAll(getClusterStatusResume(TRUE, "getClusterStatus:/cluster/status",
                                     [InitLocals EXCEPT !.nodesData = nodesData],
                                     Value(d))).payload :
        d \in DataFor("getClusterStatus:/cluster/status")}

C8_StatusCallOptional ==
    /\ (Done /\ IsCluster /\ allowElevated /\ Len(outcomes) >= 1 /\ outcomes[1] = "ok") =>
         /\ Len(outcomes) = 2
         /\ calls[2].path = "/cluster/status"
         /\ result.status = "returned"
         /\ WithStatusSucceeding(locals.nodesData) = {result.payload}
         /\ locals.nodesData.t = "list" => StartsWith(ResultText, GlyphCrane)
    /\ ~allowElevated => "/cluster/status" \notin Paths

C8_Witness ==
    /\ Returned /\ IsCluster /\ allowElevated
    /\ outcomes = <<"ok", "http">>
    /\ Len(locals.nodes) = 2
    /\ StartsWith(ResultText, GlyphCrane)

(***************************************************************************)
(* C9 as stated: any failure of a backend call made inside cluster-status, *)
(* or inside guest-exec with elevated access, is returned as the handler's *)
(* own payload whose text starts with the cross glyph, never as the        *)
(* dispatcher's "Error: " payload.                                         *)
(***************************************************************************)
IsElevatedExec == request.name = "proxmox_execute_vm_command" /\ allowElevated

C9_AnyFailureIntercepted ==
    (/\ Done
     /\ IsCluster \/ IsElevatedExec
     /\ \E i \in 1..Len(outcomes) : Failed(i)) =>
        /\ result.status = "returned"
        /\ StartsWith(ResultText, GlyphCross)
        /\ ~StartsWith(ResultText, "Error: ")

(***************************************************************************)
(* C9 amended: a failure of the /nodes call of cluster-status, or of the   *)
(* backend call of guest-exec with elevated access, is returned as the     *)
(* handler's own payload starting with the cross glyph (the cluster        *)
(* failure text, or the guest failure text with the guest agent advice);   *)
(* a failure of the /cluster/status call is swallowed and gives the        *)
(* ordinary cluster payload; none of these is returned as the dispatcher's *)
(* "Error: " payload.                                                      *)
(***************************************************************************)
C9_LocalIntercept ==
    /\ (Done /\ IsCluster /\ Failed(1)) =>
         /\ result.status = "returned"
         /\ StartsWith(ResultText, GlyphCross \o " **Failed to get cluster status**")
    /\ (Done /\ IsCluster /\ Failed(2) /\ locals.nodesData.t = "list") =>
         /\ result.status = "returned"
         /\ StartsWith(ResultText, GlyphCrane \o "  **Proxmox Cluster Status**")
    /\ (Done /\ IsElevatedExec /\ Failed(1)) =>
         /\ result.status = "returned"
         /\ StartsWith(ResultText, GlyphCross \o " **Failed to execute command on VM ")
         /\ EndsWith(ResultText,
                     "*Note: Make sure the VM has guest agent installed and running*")
    /\ (Done /\ (IsCluster \/ IsElevatedExec) /\ Len(outcomes) >= 1) =>
         /\ result.status = "returned"
         /\ ~StartsWith(ResultText, "Error: ")

C9_Witness ==
    /\ Returned /\ IsElevatedExec
    /\ outcomes = <<"network">>
    /\ StartsWith(ResultText, GlyphCross \o " **Failed to execute command on VM 100**")

(***************************************************************************)
(* C10: cluster-status with elevated access adds up the online nodes only: *)
(* total CPU is the sum of maxcpu, used CPU the sum of cpu x maxcpu, total *)
(* memory the sum of maxmem, used memory the sum of mem, an absent field   *)
(* counting as 0; each percentage is used/total x 100 to one decimal, and  *)
(* "N/A" when the total is 0; the health is Healthy exactly when every     *)
(* node is online.                                                         *)
(***************************************************************************)
\* The sum of f[i] over the i of I
RECURSIVE SumOver(_, _)
SumOver(I, f) ==
    IF I = {} THEN 0
    ELSE LET i == CHOOSE k \in I : TRUE IN f[i] + SumOver(I \ {i}, f)

\* t/10 is used/total rounded to one decimal
IsTenthsOf(t, used, total) == 2 * t * total - 20 * used \in (1 - total)..total
Tenths(t) == ToString(t \div 10) \o "." \o ToString(t % 10)
\* The percentage shown for used of total, used counted in 1/scale
PercentShown(used, total, scale) ==
    IF total = 0 THEN "N/A"
    ELSE Tenths(CHOOSE t \in 0..(1000 * scale) : IsTenthsOf(t, 100 * used, scale * total))

C10_OnlineAggregates ==
    (/\ Returned /\ IsCluster /\ allowElevated
     /\ locals.nodesData.t = "list") =>
        LET nodes == locals.nodesData.v
            online == {i \in 1..Len(nodes) : nodes[i].status = "online"}
            of(f) == [i \in 1..Len(nodes) |->
                        IF f \in DOMAIN nodes[i] THEN nodes[i][f] ELSE 0]
            maxcpu == of("maxcpu")
            maxmem == of("maxmem")
            mem == of("mem")
            cores == [i \in 1..Len(nodes) |-> of("cpu")[i] * maxcpu[i]]
            totalCpu == SumOver(online, maxcpu)
            usedCpu == SumOver(online, cores)
            totalMem == SumOver(online, maxmem)
            usedMem == SumOver(online, mem)
            healthy == Cardinality(online) = Len(nodes)
        IN /\ locals.usage.totalCpu = totalCpu
           /\ locals.usage.usedCpu = usedCpu
           /\ locals.usage.totalMem = totalMem
           /\ locals.usage.usedMem = usedMem
           /\ StartsWith(ResultText,
                GlyphCrane \o "  **Proxmox Cluster Status**\n\n**Cluster Health**: "
                \o (IF healthy THEN GlyphGreen \o " Healthy" ELSE GlyphYellow \o " Warning")
                \o "\n**Nodes**: " \o ToString(Cardinality(online)) \o "/"
                \o ToString(Len(nodes)) \o " online\n\n**Resource Usage**:\n- CPU: "
                \o PercentShown(usedCpu, totalCpu, 100) \o "% (")
           /\ locals.usage.cpuPercent = PercentShown(usedCpu, totalCpu, 100)
           /\ locals.usage.memPercent = PercentShown(usedMem, totalMem, 1)

\* the two online nodes of the scenario of the specification
C10_Witness ==
    /\ Returned /\ IsCluster /\ allowElevated
    /\ locals.nodesData.t = "list"
    /\ {locals.nodesData.v[i].node : i \in 1..Len(locals.nodesData.v)} = {"c", "b-c"}
    /\ locals.usage.cpuPercent = "37.5"
    /\ locals.usage.memPercent = "37.5"
    /\ locals.usage.usedCpu = 150
    /\ locals.usage.totalCpu = 4

(***************************************************************************)
(* C11: within one operation the backend calls are issued one after the   *)
(* other.  Every call issued but the last has been answered, and the last *)
(* one is outstanding exactly while the handler is suspended, so that at  *)
(* most one call is outstanding and a call is issued only once the answer *)
(* to the one before it has arrived.  list-guests and list-storage        *)
(* without a node filter issue /nodes first and then the listings of the  *)
(* nodes in the order /nodes gave them: for list-guests the qemu listing  *)
(* of a node before its lxc listing, each only if the type asks for it.   *)
(***************************************************************************)
NodeName(i) == Str(Field(locals.nodes[i], "node"))
TypeFilter == Default(Arg(request.args, "type"), "all")
NoNodeFilter == request.args.present /\ ~IsSet(Arg(request.args, "node"))

\* The listings list-guests asks of one node, in the order of lines 293-300
GuestListings ==
    (IF WantsQemu(TypeFilter) THEN <<"/qemu">> ELSE <<>>)
    \o (IF WantsLxc(TypeFilter) THEN <<"/lxc">> ELSE <<>>)

\* The paths the operation calls when every call succeeds, in order
GuestPaths ==
    LET k == Len(GuestListings)
    IN <<"/nodes">>
       \o [j \in 1..(k * Len(locals.nodes)) |->
              "/nodes/" \o NodeName(((j - 1) \div k) + 1)
              \o GuestListings[((j - 1) % k) + 1]]
StoragePaths ==
    <<"/nodes">>
    \o [i \in 1..Len(locals.nodes) |-> "/nodes/" \o NodeName(i) \o "/storage"]

CallPaths == [i \in 1..Len(calls) |-> calls[i].path]
IsPrefix(s, t) == Len(s) <= Len(t) /\ s = SubSeq(t, 1, Len(s))
Outstanding == Len(calls) - Len(outcomes)

C11_Sequential ==
    /\ Outstanding = (IF pc = "await" THEN 1 ELSE 0)
    /\ pc = "await" => pending = calls[Len(calls)]
    /\ pc # "await" => pending = NoCall
    /\ request.name = "proxmox_get_vms" /\ NoNodeFilter
       => /\ IsPrefix(CallPaths, GuestPaths)
          /\ Returned /\ (\A i \in 1..Len(outcomes) : ~Failed(i))
             /\ ~StartsWith(ResultText, "Error: ")
             => CallPaths = GuestPaths
    /\ request.name = "proxmox_get_storage" /\ NoNodeFilter
       => /\ IsPrefix(CallPaths, StoragePaths)
          /\ Returned /\ (\A i \in 1..Len(outcomes) : ~Failed(i))
             /\ ~StartsWith(ResultText, "Error: ")
             => CallPaths = StoragePaths

\* list-storage over two nodes is suspended on the listing of the second
\* node, the answers to /nodes and to the first listing having arrived
C11_Witness ==
    /\ request.name = "proxmox_get_storage" /\ NoNodeFilter
    /\ pc = "await"
    /\ Len(locals.nodes) = 2
    /\ CallPaths = <<"/nodes", "/nodes/c/storage", "/nodes/b-c/storage">>
    /\ outcomes = <<"ok", "ok">>
    /\ pending.path = "/nodes/b-c/storage"

(***************************************************************************)
(* C12: list-guests and list-storage without a node filter are            *)
(* all-or-nothing.  If /nodes or a listing of a node fails, no further    *)
(* backend call is issued and the result is the one payload               *)
(* "Error: <message>" of the dispatcher, with none of the guests or       *)
(* storages gathered from the nodes before.  If every call answers with   *)
(* its list, the output has every guest (storage) of every listing, the   *)
(* guests in ascending order of their numeric ID, or the none-found       *)
(* message when the listings were all empty.                              *)
(***************************************************************************)
Contains(text, part) ==
    \E k \in 0..(Len(text) - Len(part)) : SubSeq(text, k + 1, k + Len(part)) = part

Occurrences(text, part) ==
    Cardinality({k \in 0..(Len(text) - Len(part)) : SubSeq(text, k + 1, k + Len(part)) = part})

IsListGuests == request.name = "proxmox_get_vms" /\ NoNodeFilter
IsListStorage == request.name = "proxmox_get_storage" /\ NoNodeFilter

\* The call i of the request failed, resp. answered with a list
Threw(i) == received[i].t = "thrown"
Listed(i) == received[i].t = "value" /\ received[i].data.t = "list"
AllListed == Len(received) = Len(calls) /\ \A i \in 1..Len(received) : Listed(i)
\* The items the listing call i answered with
Items(i) == received[i].data.v
NothingListed == \A i \in 2..Len(received) : Items(i) = <<>>

\* How the output shows a guest, resp. a storage, of the node named name
GuestShown(vm, name) == "(ID: " \o vm.vmid \o ")\n   - Node: " \o name \o "\n"
StorageShown(storage, name) == " **" \o storage.storage \o "**\n   - Node: " \o name \o "\n"

\* A failed call ends the operation with the Error payload alone
C12_NothingOnFailure ==
    \A k \in 1..Len(received) :
        Threw(k) =>
            /\ Done /\ Returned
            /\ Len(calls) = k /\ Len(received) = k
            /\ Len(result.payload.content) = 1
            /\ ResultText = "Error: " \o received[k].message
            /\ ~Contains(ResultText, "   - Node: ")

\* Every guest of every listing is in the output, in ascending order of ID
C12_AllGuests ==
    /\ \A i \in 2..Len(calls) : \A n \in 1..Len(Items(1)) : \A g \in 1..Len(Items(i)) :
          calls[i].path \in {"/nodes/" \o Items(1)[n].node \o "/qemu",
                             "/nodes/" \o Items(1)[n].node \o "/lxc"}
          => Contains(ResultText, GuestShown(Items(i)[g], Items(1)[n].node))
    /\ Occurrences(ResultText, "(ID: ")
       = SumOver(2..Len(calls), [i \in 2..Len(calls) |-> Len(Items(i))])
    /\ \A i, j \in 1..Len(locals.vms) :
          i < j => parseInt(locals.vms[i].vmid) <= parseInt(locals.vms[j].vmid)
    /\ NothingListed => Contains(ResultText, "No virtual machines found.")

\* Every storage of every listing is in the output
C12_AllStorages ==
    /\ \A i \in 2..Len(calls) : \A n \in 1..Len(Items(1)) : \A s \in 1..Len(Items(i)) :
          calls[i].path = "/nodes/" \o Items(1)[n].node \o "/storage"
          => Contains(ResultText, StorageShown(Items(i)[s], Items(1)[n].node))
    /\ NothingListed => Contains(ResultText, "No storage found.")

C12_AllOrNothing ==
    /\ IsListGuests \/ IsListStorage => C12_NothingOnFailure
    /\ IsListGuests /\ Done /\ AllListed => C12_AllGuests
    /\ IsListStorage /\ Done /\ AllListed => C12_AllStorages

====
